---- MODULE Spec2Model ----
(***************************************************************************)
(* Model of the copy-trading bot (src/src/bot.ts) with the position        *)
(* manager it dispatches to (position-manager.ts), and of the Monaco       *)
(* position manager (monaco-position-manager.ts, monaco-protocol.ts).      *)
(*                                                                         *)
(* Units.  Amounts are in thousandths (100 = 0.1, 1000 = 1.0), prices in   *)
(* ten-thousandths (5000 = 0.50, 9900 = 0.99), the copy multiplier in      *)
(* tenths (10 = 1.0, 20 = 2.0, 5 = 0.5).  The multipliers used are powers  *)
(* of two, for which the IEEE-754 product the code computes is exact.      *)
(***************************************************************************)
EXTENDS Integers, Sequences, FiniteSets, TLC

VARIABLES
    config,                   \* BotConfig (config.ts:5-15), fixed after construction
    isRunning,                \* CopyTradingBot.isRunning            (bot.ts:17)
    lastProcessedSignatures,  \* CopyTradingBot.lastProcessedSignatures (bot.ts:18)
    dailyLoss,                \* CopyTradingBot.dailyLoss            (bot.ts:19)
    lastResetDate,            \* CopyTradingBot.lastResetDate        (bot.ts:20)
    loop,                     \* one record per monitorLoop() invocation
    started,                  \* number of monitorLoop() invocations launched
    today,                    \* the wall clock's calendar date (new Date().toDateString())
    listing,                  \* ledger: signatures per address, most recent first
    txOf,                     \* ledger: transaction body per signature
    calls,                    \* log of position-manager method invocations
    orders,                   \* log of client.orders.placeOrder invocations
    failedToday,              \* history: summed size of the failed copy trades of `today`
    pendingAtStop,            \* history: addresses of the cycle not yet begun at the last stop()
    proc,                     \* the process: its credential settings, main()'s position, exit status
    unit                      \* harness: last function applied in isolation, with input

vars == <<config, isRunning, lastProcessedSignatures, dailyLoss, lastResetDate,
          loop, started, today, listing, txOf, calls, orders, failedToday,
          pendingAtStop, proc, unit>>

botVars == <<isRunning, lastProcessedSignatures, dailyLoss, lastResetDate, loop, started>>
envVars == <<today, listing, txOf>>

----------------------------------------------------------------------------
(* Bounds of the model *)

MaxSigs == 2
MaxDay == 1
MaxLoops == 2
MaxOrders == 2

Sigs == 1..MaxSigs
Loops == 1..MaxLoops

----------------------------------------------------------------------------
(* Values *)

Undefined == "undefined"
Null == "null"
ObjectString == "[object Object]"

TargetAddresses == <<"A1", "A2">>
\* a configured address that is not a valid base58 public key
MalformedAddress == "A0"
AddressSets == {{"A1"}, {"A1", "A2"}}
Programs == <<"P1", "P2">>

SeqToSet(s) == {s[k] : k \in 1..Len(s)}

----------------------------------------------------------------------------
(* Raw transactions (tx: any).  An account-list entry is either a key whose
   toString() is its base58 text, or an object { pubkey } holding the key.
   An instruction names its program by value (programId) or by index into
   the account list (programIdIndex, 0-based; NoIndex when the field is
   missing), references accounts by 0-based index, and carries the order
   the source actually placed in its payload (data), which the code below
   never reads. *)

NoIndex == 0 - 1
NoPrice == 0 - 1

Key(k) == [obj |-> FALSE, key |-> k]
ObjKey(k) == [obj |-> TRUE, key |-> k]
Data(idx, f) == [outcomeIndex |-> idx, forOutcome |-> f, stake |-> 100, expectedPrice |-> 5000]
Ix(pid, pidx, hasAccts, accts, d) ==
    [programId |-> pid, programIdIndex |-> pidx, hasAccounts |-> hasAccts,
     accounts |-> accts, data |-> d]

\* program P1 is account 2; the instruction refers to it by index; market is account 1
TxOrder(idx, f) ==
    [accountKeys |-> <<Key("U"), Key("M"), Key("P1")>>,
     instructions |-> <<Ix(Undefined, 2, TRUE, <<1, 0>>, Data(idx, f))>>]
TxBack == TxOrder(0, TRUE)
TxLay == TxOrder(0, FALSE)
\* the same order, the account list given as objects and the program by value
TxObjKeys ==
    [accountKeys |-> <<ObjKey("U"), ObjKey("M"), ObjKey("P1")>>,
     instructions |-> <<Ix("P1", NoIndex, TRUE, <<1, 0>>, Data(0, TRUE))>>]
\* the program occurs only as the instruction's program reference
TxIxOnly ==
    [accountKeys |-> <<Key("U"), Key("M")>>,
     instructions |-> <<Ix("P1", NoIndex, TRUE, <<1, 0>>, Data(0, TRUE))>>]
\* a transaction of some other program X
TxOther ==
    [accountKeys |-> <<Key("U"), Key("X")>>,
     instructions |-> <<Ix(Undefined, 1, TRUE, <<0>>, Data(0, TRUE))>>]
\* P1 is listed as an account but the only instruction belongs to X
TxUnrelated ==
    [accountKeys |-> <<Key("U"), Key("M"), Key("P1"), Key("X")>>,
     instructions |-> <<Ix(Undefined, 3, TRUE, <<1, 2>>, Data(0, TRUE))>>]
\* an instruction of P1 without an account-reference list
TxNoAccounts ==
    [accountKeys |-> <<Key("U"), Key("M"), Key("P1")>>,
     instructions |-> <<Ix(Undefined, 2, FALSE, <<>>, Data(0, TRUE))>>]
\* an instruction of P1 with an empty account-reference list
TxEmptyAccounts ==
    [accountKeys |-> <<Key("U"), Key("M"), Key("P1")>>,
     instructions |-> <<Ix(Undefined, 2, TRUE, <<>>, Data(0, TRUE))>>]
\* two instructions of P1 on two markets
TxTwoIx ==
    [accountKeys |-> <<Key("U"), Key("M"), Key("P1"), Key("M2")>>,
     instructions |-> <<Ix(Undefined, 2, TRUE, <<1, 0>>, Data(0, TRUE)),
                        Ix(Undefined, 2, TRUE, <<3, 0>>, Data(0, FALSE))>>]
\* an instruction of P2 on market M2 followed by an instruction of P1 on market M
TxBoth ==
    [accountKeys |-> <<Key("U"), Key("M"), Key("P1"), Key("P2"), Key("M2")>>,
     instructions |-> <<Ix(Undefined, 3, TRUE, <<4, 0>>, Data(1, TRUE)),
                        Ix(Undefined, 2, TRUE, <<1, 0>>, Data(0, TRUE))>>]
\* an order of the second configured program P2
TxP2 ==
    [accountKeys |-> <<Key("U"), Key("M"), Key("P2")>>,
     instructions |-> <<Ix(Undefined, 2, TRUE, <<1, 0>>, Data(1, TRUE))>>]

TxShapes == {TxBack, TxLay, TxOrder(1, TRUE), TxOrder(1, FALSE), TxObjKeys, TxIxOnly,
             TxOther, TxUnrelated, TxNoAccounts, TxEmptyAccounts, TxTwoIx, TxBoth, TxP2}
LedgerTxs == {TxBack, TxUnrelated}

----------------------------------------------------------------------------
(* bot.ts: classification and parsing *)

\* key.toString()
KeyToString(e) == IF e.obj THEN ObjectString ELSE e.key
\* key.pubkey?.toString()
KeyPubkeyToString(e) == IF e.obj THEN e.key ELSE Undefined
\* accountKeys[i] for a 0-based i: the entry, or undefined
HasKeyAt(tx, i) == i >= 0 /\ i < Len(tx.accountKeys)

\* bot.ts:110-120
isPredictionMarketTransaction(tx) ==
    \E k \in 1..Len(tx.accountKeys) :
        KeyToString(tx.accountKeys[k]) \in SeqToSet(config.predictionMarketPrograms)

\* bot.ts:163-165
ProgramInvolved(tx, programId) ==
    \E k \in 1..Len(tx.accountKeys) :
        \/ KeyPubkeyToString(tx.accountKeys[k]) = programId
        \/ KeyToString(tx.accountKeys[k]) = programId

\* bot.ts:171-173
IxProgramId(tx, ix) ==
    IF ix.programId # Undefined THEN ix.programId
    ELSE IF HasKeyAt(tx, ix.programIdIndex)
         THEN KeyToString(tx.accountKeys[ix.programIdIndex + 1])
         ELSE Undefined

\* bot.ts:192  ix.accounts?.[0] || 0
MarketIndex(ix) ==
    IF ix.hasAccounts /\ Len(ix.accounts) > 0 THEN ix.accounts[1] ELSE 0

\* bot.ts:193  accountKeys[marketIndex]?.pubkey || accountKeys[marketIndex]
MarketAddress(tx, ix) ==
    IF HasKeyAt(tx, MarketIndex(ix)) THEN tx.accountKeys[MarketIndex(ix) + 1].key ELSE Undefined

\* bot.ts:208, the placeholder amount
PlaceholderAmount == 100

\* bot.ts:204-209
PlaceholderTrade(market) ==
    [marketAddress |-> market, outcome |-> "YES", action |-> "BUY",
     amount |-> PlaceholderAmount, price |-> NoPrice]

\* mutant: the instruction's program is not compared with programId
Mut_TradeIxs(tx, programId) ==
    {n \in 1..Len(tx.instructions) : MarketAddress(tx, tx.instructions[n]) # Undefined}

\* bot.ts:170-215: the instructions of tx that yield a trade for programId
TradeIxs(tx, programId) ==
    {n \in 1..Len(tx.instructions) :
        /\ IxProgramId(tx, tx.instructions[n]) = programId
        /\ MarketAddress(tx, tx.instructions[n]) # Undefined}

\* bot.ts:159-216: the configured programs (by position) for which tx yields a trade
TradePrograms(tx) ==
    {p \in 1..Len(config.predictionMarketPrograms) :
        /\ ProgramInvolved(tx, config.predictionMarketPrograms[p])
        /\ TradeIxs(tx, config.predictionMarketPrograms[p]) # {}}

Min(S) == CHOOSE x \in S : \A y \in S : x <= y

\* mutant: the last matching instruction of the last matching program
Mut_DecodedIx(tx) ==
    IF TradePrograms(tx) = {} THEN 0
    ELSE LET p == CHOOSE x \in TradePrograms(tx) : \A y \in TradePrograms(tx) : x >= y
             ixs == TradeIxs(tx, config.predictionMarketPrograms[p])
         IN CHOOSE x \in ixs : \A y \in ixs : x >= y

\* the instruction bot.ts:204 returns from: first program in configuration order,
\* first matching instruction in transaction order (0 when there is none)
DecodedIx(tx) ==
    IF TradePrograms(tx) = {} THEN 0
    ELSE Min(TradeIxs(tx, config.predictionMarketPrograms[Min(TradePrograms(tx))]))

\* the null result of bot.ts:218, as a record
NoTrade ==
    [marketAddress |-> Undefined, outcome |-> Null, action |-> Null,
     amount |-> 0, price |-> NoPrice]

\* bot.ts:150-219
parsePredictionMarketTransaction(tx) ==
    IF DecodedIx(tx) = 0 THEN NoTrade
    ELSE PlaceholderTrade(MarketAddress(tx, tx.instructions[DecodedIx(tx)]))

----------------------------------------------------------------------------
(* bot.ts: executeCopyTrade *)

\* bot.ts:227-233: the manager of the first configured program, whatever the trade
ManagerProgram == IF Len(config.predictionMarketPrograms) = 0 THEN Undefined
                  ELSE config.predictionMarketPrograms[1]

\* bot.ts:241
AdjustedAmount(trade) == (trade.amount * config.copyMultiplier) \div 10

\* mutant: a trade exactly at the cap is denied
Mut_ExceedsMaxPosition(trade) == AdjustedAmount(trade) >= config.maxPositionSize

\* bot.ts:244
ExceedsMaxPosition(trade) == AdjustedAmount(trade) > config.maxPositionSize

\* bot.ts:253-265
RouteMethod(trade) ==
    IF trade.action = "BUY"
    THEN IF trade.outcome = "YES" THEN "buyYesShares" ELSE "buyNoShares"
    ELSE IF trade.outcome = "YES" THEN "sellYesShares" ELSE "sellNoShares"

\* bot.ts:255-263: the call made; no price argument is passed
ManagerCall(trade) ==
    [manager |-> ManagerProgram, method |-> RouteMethod(trade),
     market |-> trade.marketAddress, amount |-> AdjustedAmount(trade), price |-> NoPrice]

\* bot.ts:235-247: whether executeCopyTrade reaches the manager call
Dispatches(trade) == ManagerProgram # Undefined /\ ~ExceedsMaxPosition(trade)

\* position-manager.ts:125-186: every buy/sell method of PositionManager throws
PositionManagerResult(call) == "throws"

\* bot.ts:269-273: the catch block; the loss update is commented out
LossAfterFailure(loss, trade) == loss

\* mutant: strict comparison
Mut_DailyLossReached(loss) == loss > config.maxDailyLoss

\* bot.ts:62
DailyLossReached(loss) == loss >= config.maxDailyLoss

\* bot.ts:276-283 resetDailyLossIfNeeded: the two fields after the call
ResetLoss == IF today # lastResetDate THEN 0 ELSE dailyLoss
\* mutant: the reset forgets to record the date
Mut_ResetDate == lastResetDate
ResetDate == IF today # lastResetDate THEN today ELSE lastResetDate

\* bot.ts:86
ListLimit == 10

----------------------------------------------------------------------------
(* monaco-position-manager.ts and monaco-protocol.ts *)

DefaultCeiling == 9900
DefaultFloor == 100

\* maxPrice || 0.99 and minPrice || 0.01: undefined and 0 are both falsy
OrDefault(price, default) == IF price = NoPrice \/ price = 0 THEN default ELSE price

\* monaco-protocol.ts placeBackOrder / placeLayOrder: the placeOrder request
placeBackOrder(marketPk, outcomeIndex, stake, expectedPrice) ==
    [marketPk |-> marketPk, outcomeIndex |-> outcomeIndex, forOutcome |-> TRUE,
     stake |-> stake, expectedPrice |-> expectedPrice]
placeLayOrder(marketPk, outcomeIndex, stake, expectedPrice) ==
    [marketPk |-> marketPk, outcomeIndex |-> outcomeIndex, forOutcome |-> FALSE,
     stake |-> stake, expectedPrice |-> expectedPrice]

\* monaco-position-manager.ts:91-125
buyYesShares(marketAddress, amount, maxPrice) ==
    placeBackOrder(marketAddress, 0, amount, OrDefault(maxPrice, DefaultCeiling))
buyNoShares(marketAddress, amount, maxPrice) ==
    placeLayOrder(marketAddress, 0, amount, OrDefault(maxPrice, DefaultCeiling))
sellYesShares(marketAddress, shares, minPrice) ==
    placeLayOrder(marketAddress, 0, shares, OrDefault(minPrice, DefaultFloor))
sellNoShares(marketAddress, shares, minPrice) ==
    placeBackOrder(marketAddress, 0, shares, OrDefault(minPrice, DefaultFloor))

\* the order a MonacoPositionManager places for a method call
MonacoOrder(call) ==
    CASE call.method = "buyYesShares" -> buyYesShares(call.market, call.amount, call.price)
      [] call.method = "buyNoShares" -> buyNoShares(call.market, call.amount, call.price)
      [] call.method = "sellYesShares" -> sellYesShares(call.market, call.amount, call.price)
      [] OTHER -> sellNoShares(call.market, call.amount, call.price)

----------------------------------------------------------------------------
(* State after construction (bot.ts:17-35) and the configurations explored
   (config.ts:18-30) *)

Multipliers == {10, 20}
MaxPositionSizes == {100, 1000}
MaxDailyLosses == {0, 100}

Config(maxPos, maxLoss, mult) ==
    [targetAddresses |-> TargetAddresses, predictionMarketPrograms |-> Programs,
     maxPositionSize |-> maxPos, maxDailyLoss |-> maxLoss, copyMultiplier |-> mult]

\* every combination, for the functions applied in isolation
UnitConfigs ==
    {Config(mp, ml, m) : mp \in MaxPositionSizes, ml \in MaxDailyLosses, m \in Multipliers}

\* config.ts:25-27, the defaults
DefaultConfig == Config(1000, 5000, 10)

\* the configurations the running bot is explored under: the defaults, a multiplier
\* that takes the placeholder trade over the position cap, a daily-loss cap of zero,
\* a daily-loss cap of one placeholder trade, and a malformed first address
Configs == {DefaultConfig, Config(100, 5000, 20), Config(1000, 0, 10), Config(1000, 100, 10),
            [DefaultConfig EXCEPT !.targetAddresses = <<MalformedAddress, "A2">>]}

\* process.exit has not been called
NoExit == 0 - 1

\* a process whose main() has constructed the bot from a usable PRIVATE_KEY
\* (index.ts:19-21, 31) and has not called start() yet
Constructed == [privateKey |-> "valid", keypairPath |-> FALSE, pc |-> "constructed",
                exitCode |-> NoExit]

IdleLoop == [pc |-> "idle", i |-> 0, sigs |-> <<>>, j |-> 0, trade |-> NoTrade,
             cycleDay |-> 0, cycleOver |-> FALSE, abandoned |-> {}]

NoUnit == [op |-> "none"]

\* the bot after construction (bot.ts:17-35), the ledger and the logs empty
InitBot(cfg) ==
    /\ config = cfg
    /\ isRunning = FALSE
    /\ lastProcessedSignatures = {}
    /\ dailyLoss = 0
    /\ today = 0
    /\ lastResetDate = today
    /\ loop = [l \in Loops |-> IdleLoop]
    /\ started = 0
    /\ listing = [a \in SeqToSet(TargetAddresses) |-> <<>>]
    /\ txOf = <<>>
    /\ calls = <<>>
    /\ orders = <<>>
    /\ failedToday = 0
    /\ pendingAtStop = {}
    /\ unit = NoUnit

InitWith(cfg) == InitBot(cfg) /\ proc = Constructed

Init == \E cfg \in Configs : InitWith(cfg)

----------------------------------------------------------------------------
(* A cycle of monitorLoop up to its first await *)

\* mutant: monitorAddress also gives up when the bot has been stopped
Mut_IsPublicKey(a) == isRunning /\ a # MalformedAddress

\* bot.ts:82: new PublicKey(targetAddress) succeeds
IsPublicKey(a) == a # MalformedAddress

\* the unseen signatures of the listing in hand from the current one on: what a
\* pass that ends in the catch leaves behind
LeftBehind(rec) ==
    {rec.sigs[k] : k \in {n \in DOMAIN rec.sigs : n >= rec.j}} \ lastProcessedSignatures

\* mutant: the catch sits inside the for-of over the listing, which goes on with
\* the next signature
Mut_CaughtAtSignature(rec) == [rec EXCEPT !.pc = "sig", !.j = @ + 1]

\* mutant: an error inside monitorAddress reaches the catch of monitorLoop, which
\* sleeps and starts the next cycle
Mut_CaughtInAddress(rec) == [rec EXCEPT !.pc = "sleep", !.sigs = <<>>, !.j = 0]

\* bot.ts:105-107 and 69: an error inside monitorAddress is caught there and
\* monitorAddress returns; the loop, which awaits it, resumes between addresses;
\* abandoned records what the pass left behind, until the cycle ends
CaughtInAddress(rec) ==
    [rec EXCEPT !.pc = "addr", !.i = @ + 1, !.sigs = <<>>, !.j = 0,
                !.abandoned = @ \cup LeftBehind(rec)]

\* bot.ts:68-72 and 80-87: the for-of takes the address at position rec.i up to
\* its listing request, or, past the last address, sets the poll timer
EnterAddress(rec) ==
    IF rec.i > Len(config.targetAddresses)
    THEN [rec EXCEPT !.pc = "sleep", !.abandoned = {}]
    ELSE IF IsPublicKey(config.targetAddresses[rec.i])
         THEN [rec EXCEPT !.pc = "listing"]
         ELSE CaughtInAddress(rec)

\* bot.ts:60-70: a cycle from the reset to its first await: the halt timer when
\* the daily loss has reached the limit, else the first address
BeginCycle(rec) ==
    IF DailyLossReached(ResetLoss)
    THEN [rec EXCEPT !.pc = "haltSleep", !.i = 1, !.cycleDay = today,
                     !.cycleOver = (failedToday >= config.maxDailyLoss)]
    ELSE EnterAddress([rec EXCEPT !.pc = "addr", !.i = 1, !.cycleDay = today,
                                  !.cycleOver = (failedToday >= config.maxDailyLoss)])

----------------------------------------------------------------------------
(* start() and stop() *)

\* bot.ts:50-54 with 58-87: start() sets the flag and calls monitorLoop(), which
\* is not awaited and runs inside start() up to its first await: the loop
\* condition (true), the reset, the daily-loss check and the first address up
\* to its listing request
Launch ==
    /\ isRunning' = TRUE
    /\ started' = started + 1
    /\ dailyLoss' = ResetLoss
    /\ lastResetDate' = ResetDate
    /\ loop' = [loop EXCEPT ![started + 1] = BeginCycle(loop[started + 1])]

\* bot.ts:37-55, isRunning false
Start ==
    /\ ~isRunning
    /\ started < MaxLoops
    /\ Launch
    /\ pendingAtStop' = {}
    /\ UNCHANGED <<config, lastProcessedSignatures, envVars, calls, orders, failedToday,
                   proc, unit>>

\* index.ts:32, the one start() the entry point makes
StartOnce == started = 0 /\ Start

\* the addresses (by position) of the cycle loop l is in whose processing has not
\* begun: from the current one on between addresses, after the current one inside
\* monitorAddress, none outside the for-of of bot.ts:68-70
NotBegun(l) ==
    CASE loop[l].pc = "addr" -> loop[l].i..Len(config.targetAddresses)
      [] loop[l].pc \in {"listing", "sig", "fetch", "dispatch", "mark"} ->
            (loop[l].i + 1)..Len(config.targetAddresses)
      [] OTHER -> {}

\* mutant: stop() also forgets the processed signatures
Mut_Stop ==
    /\ isRunning
    /\ isRunning' = FALSE
    /\ lastProcessedSignatures' = {}
    /\ pendingAtStop' = NotBegun(started)
    /\ UNCHANGED <<config, dailyLoss, lastResetDate, loop,
                   started, envVars, calls, orders, failedToday, proc, unit>>

\* bot.ts:289-292
Stop ==
    /\ isRunning
    /\ isRunning' = FALSE
    /\ pendingAtStop' = NotBegun(started)
    /\ UNCHANGED <<config, lastProcessedSignatures, dailyLoss, lastResetDate, loop,
                   started, envVars, calls, orders, failedToday, proc, unit>>

----------------------------------------------------------------------------
(* The environment: the clock and the ledger *)

Tick ==
    /\ today < MaxDay
    /\ today' = today + 1
    /\ failedToday' = 0
    /\ UNCHANGED <<config, botVars, listing, txOf, calls, orders, pendingAtStop, proc, unit>>

\* a watched address (or both) signs a new transaction
Emit(as, tx) ==
    /\ Len(txOf) < MaxSigs
    /\ txOf' = Append(txOf, tx)
    /\ listing' = [a \in DOMAIN listing |->
                      IF a \in as THEN <<Len(txOf) + 1>> \o listing[a] ELSE listing[a]]
    /\ UNCHANGED <<config, botVars, today, calls, orders, failedToday, pendingAtStop, proc, unit>>

\* connection.getSignaturesForAddress(publicKey, { limit: 10 }), bot.ts:84-87
getSignaturesForAddress(a) ==
    SubSeq(listing[a], 1, IF Len(listing[a]) < ListLimit THEN Len(listing[a]) ELSE ListLimit)

----------------------------------------------------------------------------
(* monitorLoop and monitorAddress, one action per segment between awaits *)

\* mutant: the seen-check always answers no
Mut_AlreadyProcessed(s) == FALSE

\* bot.ts:90
AlreadyProcessed(s) == s \in lastProcessedSignatures

\* mutant: a second signature, one that no listing holds (as the signature
\* returned for the replicated order would be), is recorded with the source's
Mut_MarkSeenReplica(s) == lastProcessedSignatures \cup {s, MaxSigs + s}

\* mutant: the signature is not recorded
Mut_MarkSeen(s) == lastProcessedSignatures

\* bot.ts:103
MarkSeen(s) == lastProcessedSignatures \cup {s}

CurrentAddress(l) == config.targetAddresses[loop[l].i]
\* mutant: the listing is walked from its last entry, oldest signature first
Mut_CurrentSig(l) == loop[l].sigs[Len(loop[l].sigs) + 1 - loop[l].j]
CurrentSig(l) == loop[l].sigs[loop[l].j]

\* mutant: while (true)
Mut_LoopCondition == TRUE

\* bot.ts:58: while (this.isRunning)
LoopCondition == isRunning

\* bot.ts:58-87: the timer has fired; the loop condition, the reset, the
\* daily-loss check and the first address up to its listing request
LoopTop(l) ==
    /\ loop[l].pc = "top"
    /\ IF ~LoopCondition
       THEN /\ loop' = [loop EXCEPT ![l].pc = "done"]
            /\ UNCHANGED <<dailyLoss, lastResetDate>>
       ELSE /\ dailyLoss' = ResetLoss
            /\ lastResetDate' = ResetDate
            /\ loop' = [loop EXCEPT ![l] = BeginCycle(loop[l])]
    /\ UNCHANGED <<config, isRunning, lastProcessedSignatures, started, envVars,
                   calls, orders, failedToday, pendingAtStop, proc, unit>>

\* bot.ts:69: monitorAddress has returned and the loop, which awaited it, takes
\* the next address up to its listing request, or sets the poll timer
MonitorAddress(l) ==
    /\ loop[l].pc = "addr"
    /\ loop' = [loop EXCEPT ![l] = EnterAddress(loop[l])]
    /\ UNCHANGED <<config, isRunning, lastProcessedSignatures, dailyLoss, lastResetDate,
                   started, envVars, calls, orders, failedToday, pendingAtStop, proc, unit>>

\* bot.ts:84-89 and 105-107: the listing arrives, or the request fails
ListingResolve(l) ==
    /\ loop[l].pc = "listing"
    /\ \/ loop' = [loop EXCEPT ![l].pc = "sig", ![l].j = 1,
                                ![l].sigs = getSignaturesForAddress(CurrentAddress(l))]
       \/ loop' = [loop EXCEPT ![l] = CaughtInAddress(loop[l])]
    /\ UNCHANGED <<config, isRunning, lastProcessedSignatures, dailyLoss, lastResetDate,
                   started, envVars, calls, orders, failedToday, pendingAtStop, proc, unit>>

\* bot.ts:89-96: next signature of the listing, up to the transaction request
NextSignature(l) ==
    /\ loop[l].pc = "sig"
    /\ loop' = IF loop[l].j > Len(loop[l].sigs)
               THEN [loop EXCEPT ![l].pc = "addr", ![l].i = @ + 1, ![l].sigs = <<>>, ![l].j = 0]
               ELSE IF AlreadyProcessed(CurrentSig(l))
                    THEN [loop EXCEPT ![l].j = @ + 1]
                    ELSE [loop EXCEPT ![l].pc = "fetch"]
    /\ UNCHANGED <<config, isRunning, lastProcessedSignatures, dailyLoss, lastResetDate,
                   started, envVars, calls, orders, failedToday, pendingAtStop, proc, unit>>

\* mutant: the add sits inside the if, a signature without a body stays unseen
Mut_MarkAbsent(s) == lastProcessedSignatures

\* bot.ts:98-103: tx is null, the if is skipped and the add after it runs
MarkAbsent(s) == MarkSeen(s)

\* bot.ts:127-138, 224-265: the trade processTransaction(tx) hands to a manager,
\* or NoTrade; processTransaction parses without asking the classifier
TradeToCopy(tx) ==
    IF /\ parsePredictionMarketTransaction(tx) # NoTrade
       /\ Dispatches(parsePredictionMarketTransaction(tx))
    THEN parsePredictionMarketTransaction(tx)
    ELSE NoTrade

\* bot.ts:98-100: monitorAddress calls processTransaction only for a body the
\* classifier accepts
TradeToDispatch(tx) ==
    IF isPredictionMarketTransaction(tx) THEN TradeToCopy(tx) ELSE NoTrade

\* bot.ts:94-103: the transaction request settles.  With null, or a body the
\* classifier rejects, line 103 follows at once.  Otherwise processTransaction
\* is called and awaited: it runs up to the manager call, or returns without one
\* (no trade parsed, no manager, trade over the position cap)
FetchResolve(l) ==
    /\ loop[l].pc = "fetch"
    /\ \/ \* getTransaction throws: caught at bot.ts:105, the address is abandoned
          /\ loop' = [loop EXCEPT ![l] = CaughtInAddress(loop[l])]
          /\ UNCHANGED <<lastProcessedSignatures, calls>>
       \/ \* getTransaction returns null
          /\ loop' = [loop EXCEPT ![l].pc = "sig", ![l].j = @ + 1]
          /\ lastProcessedSignatures' = MarkAbsent(CurrentSig(l))
          /\ UNCHANGED calls
       \/ \* getTransaction returns the body
          LET tx == txOf[CurrentSig(l)]
              trade == TradeToDispatch(tx)
          IN IF ~isPredictionMarketTransaction(tx)
             THEN /\ loop' = [loop EXCEPT ![l].pc = "sig", ![l].j = @ + 1]
                  /\ lastProcessedSignatures' = MarkSeen(CurrentSig(l))
                  /\ UNCHANGED calls
             ELSE IF trade # NoTrade
                  THEN /\ calls' = Append(calls, [sig |-> CurrentSig(l), trade |-> trade,
                                               call |-> ManagerCall(trade)])
                       /\ loop' = [loop EXCEPT ![l].pc = "dispatch", ![l].trade = trade]
                       /\ UNCHANGED lastProcessedSignatures
                  ELSE /\ loop' = [loop EXCEPT ![l].pc = "mark"]
                       /\ UNCHANGED <<lastProcessedSignatures, calls>>
    /\ UNCHANGED <<config, isRunning, dailyLoss, lastResetDate, started, envVars,
                   orders, failedToday, pendingAtStop, proc, unit>>

\* bot.ts:252-273: the manager call settles; the catch of executeCopyTrade, then
\* the return through processTransaction to the await of bot.ts:100
DispatchResolve(l) ==
    /\ loop[l].pc = "dispatch"
    /\ IF PositionManagerResult(ManagerCall(loop[l].trade)) = "throws"
       THEN /\ dailyLoss' = LossAfterFailure(dailyLoss, loop[l].trade)
            /\ failedToday' = failedToday + loop[l].trade.amount
       ELSE UNCHANGED <<dailyLoss, failedToday>>
    /\ loop' = [loop EXCEPT ![l].pc = "mark", ![l].trade = NoTrade]
    /\ UNCHANGED <<config, isRunning, lastProcessedSignatures, lastResetDate, started,
                   envVars, calls, orders, pendingAtStop, proc, unit>>

\* bot.ts:100-103: the awaited processTransaction has returned and monitorAddress
\* resumes: the signature is added to the processed set
MarkProcessed(l) ==
    /\ loop[l].pc = "mark"
    /\ lastProcessedSignatures' = MarkSeen(CurrentSig(l))
    /\ loop' = [loop EXCEPT ![l].pc = "sig", ![l].j = @ + 1]
    /\ UNCHANGED <<config, isRunning, dailyLoss, lastResetDate, started, envVars, calls,
                   orders, failedToday, pendingAtStop, proc, unit>>

\* bot.ts:64 and 72: the poll interval elapses
Sleep(l) ==
    /\ loop[l].pc \in {"sleep", "haltSleep"}
    /\ loop' = [loop EXCEPT ![l].pc = "top"]
    /\ UNCHANGED <<config, isRunning, lastProcessedSignatures, dailyLoss, lastResetDate,
                   started, envVars, calls, orders, failedToday, pendingAtStop, proc, unit>>

LoopStep(l) ==
    \/ LoopTop(l)
    \/ MonitorAddress(l)
    \/ ListingResolve(l)
    \/ NextSignature(l)
    \/ FetchResolve(l)
    \/ DispatchResolve(l)
    \/ MarkProcessed(l)
    \/ Sleep(l)

Environment ==
    \/ Tick
    \/ \E as \in AddressSets, tx \in LedgerTxs : Emit(as, tx)

\* The bot as index.ts runs it: one start(); stop() may come at any time
Next ==
    \/ StartOnce
    \/ Stop
    \/ Environment
    \/ \E l \in Loops : LoopStep(l)

Spec == Init /\ [][Next]_vars

\* The same bot with the scheduling the runtime provides: a loop that can take a
\* step takes it eventually (every awaited request settles, every timer fires,
\* every continuation runs)
\* explored under the defaults and under a daily-loss cap of zero, where every
\* cycle is a halted one
LiveConfigs == {DefaultConfig, Config(1000, 0, 10)}

InitLive == \E cfg \in LiveConfigs : InitWith(cfg)

SpecLive == InitLive /\ [][Next]_vars /\ \A l \in Loops : WF_vars(LoopStep(l))

----------------------------------------------------------------------------
(* The bot under every sequence of start() and stop() calls.  JavaScript runs
   one synchronous segment at a time: between two awaits a loop is not
   interleaved with another loop, with a call of start() or stop(), or with a
   settling request.  A loop at "top" or "sig" is inside such a segment;
   everything else happens only while every loop is suspended at an await
   (of a request, of a timer, or of monitorAddress or processTransaction
   returning).
   The ledger holds at most one transaction of the one watched address. *)

Suspended(l) ==
    loop[l].pc \in {"idle", "addr", "listing", "fetch", "dispatch", "mark", "sleep",
                    "haltSleep", "done"}

\* a call of start() or stop() by the embedding program, or a change of the
\* ledger or of the date, between two segments
RestartEvent ==
    /\ \A l \in Loops : Suspended(l)
    /\ \/ Start
       \/ Stop
       \/ Tick
       \/ \E tx \in LedgerTxs : txOf = <<>> /\ Emit({"A1"}, tx)

\* loop l resumes from its await, or continues the segment it is in
RestartStep(l) ==
    /\ \A m \in Loops \ {l} : Suspended(m)
    /\ LoopStep(l)

\* the defaults, one watched address
RestartConfig == [DefaultConfig EXCEPT !.targetAddresses = <<"A1">>]

InitRestart == InitWith(RestartConfig)

NextRestart ==
    \/ RestartEvent
    \/ \E l \in Loops : RestartStep(l)

SpecRestart == InitRestart /\ [][NextRestart]_vars

----------------------------------------------------------------------------
(* The entry point, index.ts.  PRIVATE_KEY is absent (unset or empty), a usable
   JSON array of key bytes, or text from which no keypair can be made;
   KEYPAIR_PATH is set or not. *)

PrivateKeys == {"absent", "valid", "malformed"}

\* mutant: a keypair is loaded from KEYPAIR_PATH when PRIVATE_KEY is absent
Mut_WalletLoads(p) == p.privateKey = "valid" \/ (p.privateKey = "absent" /\ p.keypairPath)

\* index.ts:18-26: main obtains a wallet; otherwise it throws
WalletLoads(p) == p.privateKey = "valid"

\* index.ts:8-38: main() up to its await of bot.start(), whose body (bot.ts:37-55)
\* runs the new loop up to its first await, or up to process.exit(1) in the
\* catch of line 35
Main ==
    /\ proc.pc = "main"
    /\ IF WalletLoads(proc)
       THEN /\ proc' = [proc EXCEPT !.pc = "started"]
            /\ Launch
       ELSE /\ proc' = [proc EXCEPT !.pc = "exited", !.exitCode = 1]
            /\ UNCHANGED <<isRunning, started, loop, dailyLoss, lastResetDate>>
    /\ UNCHANGED <<config, lastProcessedSignatures, envVars,
                   calls, orders, failedToday, pendingAtStop, unit>>

InitMain ==
    /\ InitBot(DefaultConfig)
    /\ \E k \in PrivateKeys, path \in BOOLEAN :
          proc = [privateKey |-> k, keypairPath |-> path, pc |-> "main", exitCode |-> NoExit]

\* the process as started from index.ts: nothing there calls stop()
NextMain ==
    \/ Main
    \/ Environment
    \/ \E l \in Loops : LoopStep(l)

SpecMain == InitMain /\ [][NextMain]_vars

----------------------------------------------------------------------------
(* Functions applied in isolation to inputs the placeholder parser never
   produces: the classifier and the parser on every transaction shape,
   executeCopyTrade on every trade. *)

Trades ==
    [marketAddress : {"M"}, outcome : {"YES", "NO"}, action : {"BUY", "SELL"},
     amount : {100, 400, 600}, price : {NoPrice, 5000}]

UnitClassify(tx) ==
    /\ unit = NoUnit
    /\ unit' = [op |-> "classify", tx |-> tx, result |-> isPredictionMarketTransaction(tx)]
    /\ UNCHANGED <<config, botVars, envVars, calls, orders, failedToday, pendingAtStop, proc>>

UnitParse(tx) ==
    /\ unit = NoUnit
    /\ unit' = [op |-> "parse", tx |-> tx, trade |-> parsePredictionMarketTransaction(tx)]
    /\ UNCHANGED <<config, botVars, envVars, calls, orders, failedToday, pendingAtStop, proc>>

\* executeCopyTrade(trade) up to its manager call
UnitExecute(trade) ==
    /\ unit = NoUnit
    /\ unit' = [op |-> "execute", trade |-> trade]
    /\ calls' = IF Dispatches(trade)
                THEN Append(calls, [sig |-> 0, trade |-> trade, call |-> ManagerCall(trade)])
                ELSE calls
    /\ UNCHANGED <<config, botVars, envVars, orders, failedToday, pendingAtStop, proc>>

\* bot.ts:122-143 with 224-265: processTransaction(tx) up to the manager call, if
\* it makes one; the classifier of line 98 belongs to the caller and is not asked
UnitCopy(tx) ==
    /\ unit = NoUnit
    /\ LET trade == TradeToCopy(tx)
       IN IF trade # NoTrade
          THEN /\ calls' = Append(calls, [sig |-> 0, trade |-> trade,
                                         call |-> ManagerCall(trade)])
               /\ unit' = [op |-> "copy", tx |-> tx, trade |-> trade,
                           order |-> Len(calls) + 1]
          ELSE /\ calls' = calls
               /\ unit' = [op |-> "copy", tx |-> tx, trade |-> NoTrade, order |-> 0]
    /\ UNCHANGED <<config, botVars, envVars, orders, failedToday, pendingAtStop, proc>>

InitUnit == \E cfg \in UnitConfigs : InitWith(cfg)

NextUnit ==
    \/ \E tx \in TxShapes : UnitClassify(tx)
    \/ \E tx \in TxShapes : UnitParse(tx)
    \/ \E trade \in Trades : UnitExecute(trade)
    \/ \E tx \in TxShapes : UnitCopy(tx)

SpecUnit == InitUnit /\ [][NextUnit]_vars

----------------------------------------------------------------------------
(* The methods of MonacoPositionManager applied in isolation, with the optional
   price argument drawn from PriceArgs.  The bot itself holds a PositionManager
   for every configured program (bot.ts:29-31) and never calls these methods;
   what executeCopyTrade calls, for the trades of MonacoTrades, is logged beside
   them. *)

MonacoManager == "MonacoPositionManager"
Methods == {"buyYesShares", "buyNoShares", "sellYesShares", "sellNoShares"}
PriceArgs == <<5000, 0, NoPrice>>
MonacoAmounts == {100, 400}
MonacoTrades == {t \in Trades : t.amount = 100}

\* monaco-position-manager.ts:91-125: one of the four methods is called on a
\* MonacoPositionManager and places its order
MonacoCall(method, amount, price) ==
    /\ Len(orders) < MaxOrders
    /\ LET call == [manager |-> MonacoManager, method |-> method, market |-> "M",
                    amount |-> amount, price |-> price]
       IN /\ calls' = Append(calls, [sig |-> 0, trade |-> NoTrade, call |-> call,
                                    order |-> Len(orders) + 1])
          /\ orders' = Append(orders, MonacoOrder(call))
    /\ UNCHANGED <<config, botVars, envVars, failedToday, pendingAtStop, proc, unit>>

InitMonaco == InitWith(DefaultConfig)

NextMonaco ==
    \/ \E method \in Methods, amount \in MonacoAmounts, n \in DOMAIN PriceArgs :
          MonacoCall(method, amount, PriceArgs[n])
    \/ \E trade \in MonacoTrades : UnitExecute(trade)

SpecMonaco == InitMonaco /\ [][NextMonaco]_vars

----------------------------------------------------------------------------
(* Properties *)

\* positions of the manager invocations logged for source signature s
CallsFor(log, s) == {k \in 1..Len(log) : log[k].sig = s}

\* loop l takes a step
Steps(l) == loop'[l] # loop[l]

\* loop l takes the step that begins a cycle: its launch by start(), or the
\* step from the top of the loop while the bot is running
BeginsCycle(l) ==
    /\ Steps(l)
    /\ \/ loop[l].pc = "idle"
       \/ loop[l].pc = "top" /\ isRunning

\* the calls of the log made on a MonacoPositionManager, and the order such a
\* call placed
MonacoCalls == {k \in 1..Len(calls) : calls[k].call.manager = MonacoManager}
OrderOf(k) == orders[calls[k].order]
IsBuy(method) == method \in {"buyYesShares", "buyNoShares"}

\* C1: a signature already in the processed set is skipped by every loop that
\* inspects it (the loop moves to the next signature without requesting the
\* transaction), and no manager method is ever invoked for it again.
C1_Idempotency ==
    [][/\ \A s \in lastProcessedSignatures : CallsFor(calls', s) = CallsFor(calls, s)
       /\ \A l \in Loops :
             (/\ loop[l].pc = "sig"
              /\ loop[l].j <= Len(loop[l].sigs)
              /\ loop[l].sigs[loop[l].j] \in lastProcessedSignatures
              /\ Steps(l))
             => /\ loop'[l].pc = "sig"
                /\ loop'[l].j = loop[l].j + 1
                /\ lastProcessedSignatures' = lastProcessedSignatures]_vars

\* C1 witness: signature 1 was dispatched in an earlier pass, signature 2 later;
\* the pass over the listing <<2, 1>> has gone past both, so it saw 1 again.
C1_Witness ==
    \E l \in Loops :
        /\ loop[l].pc = "sig"
        /\ loop[l].sigs = <<2, 1>>
        /\ loop[l].j = 3
        /\ Len(calls) = 2
        /\ calls[1].sig = 1
        /\ calls[2].sig = 2

\* the order the end-to-end scenario expects: placeOrder(M, 0, true, 0.1, 0.505)
ScenarioOrder ==
    [marketPk |-> "M", outcomeIndex |-> 0, forOutcome |-> TRUE,
     stake |-> 100, expectedPrice |-> 5050]

\* C2: with copyMultiplier 1.0, maxPositionSize 1.0 and dailyLoss 0, once the single
\* listed signature of a back order {M, 0, true, 0.1, 0.5} is marked seen,
\* placeOrder(M, 0, true, 0.1, 0.505) has been called exactly once.
C2_EndToEnd ==
    (/\ config.copyMultiplier = 10
     /\ config.maxPositionSize = 1000
     /\ dailyLoss = 0
     /\ txOf = <<TxBack>>
     /\ 1 \in lastProcessedSignatures)
    => orders = <<ScenarioOrder>>

\* C3: in a poll cycle that began after the failed copy trades of the day had
\* reached maxDailyLoss, no order is dispatched.
C3_NoUnboundedLoss ==
    \A l \in Loops :
        ~(/\ loop[l].pc = "dispatch"
          /\ loop[l].cycleOver
          /\ loop[l].cycleDay = today)

\* C4: a cycle that finds dailyLoss >= maxDailyLoss after the rollover check goes
\* straight to its sleep and from there to the next cycle; neither step polls an
\* address, requests a transaction, dispatches an order or changes the processed set.
C4_HardStop ==
    [][\A l \in Loops :
          /\ (BeginsCycle(l) /\ dailyLoss' >= config.maxDailyLoss)
             => /\ loop'[l].pc = "haltSleep"
                /\ lastProcessedSignatures' = lastProcessedSignatures
                /\ calls' = calls
                /\ orders' = orders
          /\ (loop[l].pc = "haltSleep" /\ Steps(l))
             => /\ loop'[l].pc = "top"
                /\ lastProcessedSignatures' = lastProcessedSignatures
                /\ calls' = calls
                /\ orders' = orders
                /\ dailyLoss' = dailyLoss]_vars

\* C4 witness: a loop sleeps in a halted cycle while an unprocessed signature is listed.
C4_Witness ==
    \E l \in Loops :
        /\ loop[l].pc = "haltSleep"
        /\ listing["A1"] # <<>>
        /\ lastProcessedSignatures = {}
        /\ dailyLoss >= config.maxDailyLoss

\* C5: executeCopyTrade reaches a manager method iff amount x copyMultiplier <=
\* maxPositionSize, the stake it passes is that product, hence at most
\* maxPositionSize; with cap 1.0 and multiplier 2.0, 0.6 is denied and 0.4 admitted.
C5_PositionCap ==
    unit.op = "execute" =>
        LET t == unit.trade
            product == t.amount * config.copyMultiplier
            example == config.maxPositionSize = 1000 /\ config.copyMultiplier = 20
        IN /\ (calls # <<>>) <=> (product <= config.maxPositionSize * 10)
           /\ calls # <<>> =>
                 /\ Len(calls) = 1
                 /\ calls[1].call.amount * 10 = product
                 /\ calls[1].call.amount <= config.maxPositionSize
           /\ (example /\ t.amount = 600) => calls = <<>>
           /\ (example /\ t.amount = 400) => (calls # <<>> /\ calls[1].call.amount = 800)

\* C5 witness: cap 1.0, multiplier 2.0, amount 0.4 was dispatched with stake 0.8.
C5_Witness ==
    /\ unit.op = "execute"
    /\ config.maxPositionSize = 1000
    /\ config.copyMultiplier = 20
    /\ unit.trade.amount = 400
    /\ Len(calls) = 1
    /\ calls[1].call.amount = 800

\* C6: the step that begins a poll cycle sets dailyLoss to 0 and lastResetDate to
\* the current date when the dates differ and leaves both unchanged when they are
\* equal; the daily-loss check of that step reads the values after the reset, and
\* the first address is taken up only afterwards.
C6_DailyReset ==
    [][\A l \in Loops :
          BeginsCycle(l)
          => /\ IF lastResetDate # today
                THEN dailyLoss' = 0 /\ lastResetDate' = today
                ELSE dailyLoss' = dailyLoss /\ lastResetDate' = lastResetDate
             /\ loop'[l].pc =
                   IF dailyLoss' >= config.maxDailyLoss THEN "haltSleep"
                   ELSE IF config.targetAddresses[1] # MalformedAddress THEN "listing"
                   ELSE "addr"
             /\ loop'[l].pc = "listing" => loop'[l].i = 1
             /\ loop'[l].pc = "addr" => loop'[l].i = 2]_vars

\* C6 witness: the date rolled over and a cycle of the new day has reset lastResetDate.
C6_Witness ==
    \E l \in Loops :
        /\ today > 0
        /\ lastResetDate = today
        /\ dailyLoss = 0
        /\ loop[l].cycleDay = today
        /\ loop[l].pc \in {"listing", "haltSleep"}

\* the payload of the instruction a parsed trade was produced from
SourceData(tx) == tx.instructions[DecodedIx(tx)].data

\* C7: the trade parsed from an instruction is (YES, BUY) when the instruction's
\* forOutcome is true and (NO, SELL) when it is false, for every outcomeIndex.
C7_Mapping ==
    (unit.op = "parse" /\ unit.trade # NoTrade) =>
        IF SourceData(unit.tx).forOutcome
        THEN unit.trade.outcome = "YES" /\ unit.trade.action = "BUY"
        ELSE unit.trade.outcome = "NO" /\ unit.trade.action = "SELL"

\* C8: a trade carrying price p is handed to the manager with limit price
\* p x 1.01 for a BUY and p x 0.99 for a SELL, and a manager method called with
\* price p submits its order at that limit; without a price a BUY is submitted at
\* 0.99 and a SELL at 0.01.
C8_PriceTolerance ==
    /\ \A k \in 1..Len(calls) :
          (calls[k].trade # NoTrade /\ calls[k].trade.price # NoPrice)
          => calls[k].call.price * 100 =
                calls[k].trade.price * (IF calls[k].trade.action = "BUY" THEN 101 ELSE 99)
    /\ \A k \in MonacoCalls :
          LET p == calls[k].call.price
              buy == IsBuy(calls[k].call.method)
          IN IF p = NoPrice
             THEN OrderOf(k).expectedPrice = IF buy THEN 9900 ELSE 100
             ELSE OrderOf(k).expectedPrice * 100 = p * (IF buy THEN 101 ELSE 99)

\* a configured program id occurs in tx: as a plain key of the account list, inside
\* an account entry object, or as an instruction's program reference
ProgramOccurs(tx) ==
    \E p \in SeqToSet(config.predictionMarketPrograms) :
        \/ \E k \in 1..Len(tx.accountKeys) : tx.accountKeys[k].key = p
        \/ \E n \in 1..Len(tx.instructions) : tx.instructions[n].programId = p

\* C9: the classifier returns true for every transaction in which a configured
\* program id occurs, in any of the representations.
C9_NoFalseNegative ==
    (unit.op = "classify" /\ ProgramOccurs(unit.tx)) => unit.result

\* the manager method of an (action, outcome) pair
MethodOf(action, outcome) ==
    CASE action = "BUY" /\ outcome = "YES" -> "buyYesShares"
      [] action = "BUY" /\ outcome = "NO" -> "buyNoShares"
      [] action = "SELL" /\ outcome = "YES" -> "sellYesShares"
      [] action = "SELL" /\ outcome = "NO" -> "sellNoShares"

Routed ==
    \A k \in 1..Len(calls) :
        calls[k].trade # NoTrade
        => calls[k].call.method = MethodOf(calls[k].trade.action, calls[k].trade.outcome)

Shape(k) == <<OrderOf(k).forOutcome, OrderOf(k).outcomeIndex>>

\* C10: every trade is routed to the method of its (action, outcome) pair, and
\* different methods place orders of different (side, index).
C10_FourDistinctOrders ==
    /\ Routed
    /\ \A i, k \in MonacoCalls :
          calls[i].call.method # calls[k].call.method => Shape(i) # Shape(k)

\* the method a source order with side flag f reaches when it is normalised as
\* C7 states (back to YES/BUY, lay to NO/SELL) and routed by executeCopyTrade
NormalisedMethod(f) ==
    RouteMethod([marketAddress |-> "M", outcome |-> IF f THEN "YES" ELSE "NO",
                 action |-> IF f THEN "BUY" ELSE "SELL", amount |-> 100,
                 price |-> NoPrice])

\* C11: the order a Monaco manager method places has the side flag and the
\* outcome index of every source order that is normalised and routed to that
\* method: forOutcome = f on outcome index i for a source order (f, i); a lay
\* source order is replicated as a lay order.
C11_EquivalentOrder ==
    \A k \in MonacoCalls :
        /\ \A f \in BOOLEAN, i \in {0, 1} :
              NormalisedMethod(f) = calls[k].call.method
              => Shape(k) = <<f, i>>
        /\ \A tx \in TxShapes :
              (/\ parsePredictionMarketTransaction(tx) # NoTrade
               /\ RouteMethod(parsePredictionMarketTransaction(tx)) = calls[k].call.method)
              => Shape(k) = <<SourceData(tx).forOutcome, SourceData(tx).outcomeIndex>>


\* C12: when the processing of a fetched transaction ends (no trade parsed, trade
\* denied by the position cap, or the manager call thrown), the loop resumes at
\* line 103: a settled manager call leads there, the step taken there puts the
\* signature into the processed set and moves on to the next signature; no
\* signature ever has more than one manager invocation.
C12_SeenWhateverOutcome ==
    [][/\ \A l \in Loops :
             /\ (/\ loop[l].pc \in {"fetch", "mark"}
                 /\ Steps(l)
                 /\ loop'[l].pc = "sig")
                => /\ loop[l].sigs[loop[l].j] \in lastProcessedSignatures'
                   /\ loop'[l].j = loop[l].j + 1
             /\ (loop[l].pc = "dispatch" /\ Steps(l))
                => (loop'[l].pc = "mark" /\ loop'[l].j = loop[l].j)
             /\ (loop[l].pc = "mark" /\ Steps(l)) => loop'[l].pc = "sig"
       /\ \A s \in Sigs : Cardinality(CallsFor(calls', s)) <= 1]_vars

\* C12 witness: signature 1 (a back order, whose manager call threw) and signature 2
\* (a transaction from which no trade is parsed) are both in the processed set,
\* with the one invocation for signature 1.
C12_Witness ==
    /\ txOf = <<TxBack, TxUnrelated>>
    /\ lastProcessedSignatures = {1, 2}
    /\ Len(calls) = 1
    /\ calls[1].sig = 1
    /\ failedToday = PlaceholderAmount


\* the instruction has no market position: its account-reference list is missing
\* or empty
AccountsAbsent(ix) == ~ix.hasAccounts \/ Len(ix.accounts) = 0

\* C13: a transaction whose instructions all lack the market position (the
\* account-reference list is missing or empty) yields no trade.
C13_NoMarketNoTrade ==
    (/\ unit.op = "parse"
     /\ \A n \in 1..Len(unit.tx.instructions) : AccountsAbsent(unit.tx.instructions[n]))
    => unit.trade = NoTrade


\* C14: no step of a cycle under way terminates the loop or skips an address.  A
\* loop ends only at the top of a cycle, on finding isRunning false; a step that
\* abandons an address (malformed address, listing error, fetch error) takes up
\* the next address; a settled manager call, thrown included, continues with the
\* next signature; the sleep is entered only after the last address and is
\* followed by the next cycle.
C14_FailureContainment ==
    [][\A l \in Loops :
          Steps(l) =>
             /\ loop'[l].pc = "done" => (loop[l].pc = "top" /\ ~isRunning)
             /\ loop[l].pc \in {"addr", "listing", "sig", "fetch", "dispatch", "mark"} =>
                   /\ loop'[l].pc \in {"addr", "listing", "sig", "fetch", "dispatch", "mark",
                                      "sleep"}
                   /\ loop'[l].pc = "sleep" => loop[l].i > Len(config.targetAddresses)
                   /\ loop'[l].pc = "addr" => loop'[l].i = loop[l].i + 1
                   /\ loop'[l].pc # "addr" => loop'[l].i = loop[l].i
             /\ (loop[l].pc = "addr" /\ loop[l].i <= Len(config.targetAddresses)) =>
                   loop'[l].pc = IF IsPublicKey(CurrentAddress(l)) THEN "listing" ELSE "addr"
             /\ loop[l].pc = "dispatch" => loop'[l].pc = "mark"
             /\ loop[l].pc = "mark" => loop'[l].pc = "sig"
             /\ loop[l].pc = "sleep" => loop'[l].pc = "top"]_vars

\* C14 witness: the first configured address is malformed; an earlier cycle
\* dispatched signature 1 at the second address, the manager call threw, and a
\* later cycle is polling the second address again.
C14_Witness ==
    \E l \in Loops :
        /\ config.targetAddresses[1] = MalformedAddress
        /\ loop[l].pc = "listing"
        /\ loop[l].i = 2
        /\ Len(calls) = 1
        /\ failedToday = PlaceholderAmount
        /\ 1 \in lastProcessedSignatures


\* C15: a loop that comes to the top of a cycle after stop() begins no cycle and
\* ends; stop() itself changes nothing of the loop or of the call in flight, which
\* is left to complete; and once stop() has been called (and start() not again),
\* every loop launched eventually terminates.
C15_StopTerminates ==
    /\ [][/\ \A l \in Loops :
               (loop[l].pc = "top" /\ ~isRunning /\ Steps(l)) => loop'[l].pc = "done"
          /\ (isRunning /\ ~isRunning') =>
               (loop' = loop /\ calls' = calls /\
                lastProcessedSignatures' = lastProcessedSignatures)]_vars
    /\ (~isRunning) ~> (\A l \in Loops : started >= l => loop[l].pc = "done")

\* C15 witness: stop() was called, and the loop has ended after a dispatch that
\* was left to complete.
C15_Witness ==
    /\ started = 1
    /\ ~isRunning
    /\ loop[1].pc = "done"
    /\ Len(calls) = 1
    /\ calls[1].sig \in lastProcessedSignatures


\* C16 as stated: after stop(), no address whose processing had not begun when
\* stop() was called is polled, and no order is dispatched for it.
C16_StopAtAddressBoundary ==
    \A l \in Loops :
        (~isRunning /\ loop[l].pc \in {"listing", "sig", "fetch", "dispatch", "mark"})
        => loop[l].i \notin pendingAtStop

\* C16 amended: a stop request is observed only at the top of the next cycle.
\* Between addresses the loop takes up the next well-formed address whether or
\* not stop() has been called, those not begun at the time of stop() included,
\* and it ends exactly in the step that evaluates the loop condition after stop().
C16_StopAtCycleTop ==
    [][\A l \in Loops :
          Steps(l) =>
             /\ (/\ loop[l].pc = "addr"
                 /\ loop[l].i <= Len(config.targetAddresses)
                 /\ CurrentAddress(l) # MalformedAddress)
                => loop'[l].pc = "listing"
             /\ loop'[l].pc = "done" <=> (loop[l].pc = "top" /\ ~isRunning)]_vars

\* C16 witness: stop() was called before the loop had begun the second address,
\* and the loop is now dispatching an order copied from that address.
C16_Witness ==
    \E l \in Loops :
        /\ ~isRunning
        /\ loop[l].pc = "dispatch"
        /\ loop[l].i = 2
        /\ 2 \in pendingAtStop


\* C17: with PRIVATE_KEY absent, KEYPAIR_PATH set or not, no bot is ever started
\* (no loop, hence no ledger request, manager call or order) and main, once it
\* has run, has ended the process with exit status 1.
C17_FatalStartup ==
    proc.privateKey = "absent" =>
        /\ proc.pc \in {"main", "exited"}
        /\ proc.pc = "exited" <=> proc.exitCode = 1
        /\ ~isRunning
        /\ started = 0
        /\ \A l \in Loops : loop[l] = IdleLoop
        /\ lastProcessedSignatures = {}
        /\ calls = <<>>
        /\ orders = <<>>

\* C17 witness: PRIVATE_KEY absent and KEYPAIR_PATH set; the process has exited
\* with status 1 while a watched address has a transaction listed.
C17_Witness ==
    /\ proc.privateKey = "absent"
    /\ proc.keypairPath
    /\ proc.pc = "exited"
    /\ proc.exitCode = 1
    /\ listing["A1"] # <<>>
    /\ started = 0


\* C18: dailyLoss changes in two ways only.  The step in which a manager call
\* fails raises it by the size of the failed trade; the step that begins a cycle
\* on a new date sets it to 0; every other step (a trade denied by the cap, a
\* transaction without a trade, a successful call) leaves it unchanged.
C18_LossAccounting ==
    [][\A l \in Loops :
          Steps(l) =>
             IF loop[l].pc = "dispatch"
             THEN dailyLoss' =
                     IF PositionManagerResult(ManagerCall(loop[l].trade)) = "throws"
                     THEN dailyLoss + loop[l].trade.amount
                     ELSE dailyLoss
             ELSE IF BeginsCycle(l) /\ today # lastResetDate
                  THEN dailyLoss' = 0
                  ELSE dailyLoss' = dailyLoss]_vars


\* loop l has a ledger request or a manager call outstanding
Awaiting(l) == loop[l].pc \in {"listing", "fetch", "dispatch"}

\* C19: within one monitor loop the addresses are taken in configuration order
\* (the index starts at 1 in each cycle and advances by one), the signatures of an
\* address in the order of the listing as returned; a transaction is requested
\* only when every earlier signature of the listing has been dealt with and marked,
\* the manager is invoked only for the signature just fetched, and never are two
\* requests or calls outstanding at once.
C19_SequentialOrder ==
    [][/\ \A l \in Loops :
             Steps(l) =>
                /\ loop'[l].i = IF BeginsCycle(l)
                                THEN (IF loop'[l].pc = "addr" THEN 2 ELSE 1)
                                ELSE IF loop'[l].pc = "addr" THEN loop[l].i + 1
                                ELSE loop[l].i
                /\ (loop[l].pc = "listing" /\ loop'[l].pc = "sig") =>
                      /\ loop'[l].sigs = getSignaturesForAddress(CurrentAddress(l))
                      /\ loop'[l].j = 1
                /\ (loop[l].pc = "sig" /\ loop'[l].pc = "sig") => loop'[l].j = loop[l].j + 1
                /\ (loop[l].pc = "sig" /\ loop'[l].pc = "fetch") =>
                      /\ loop'[l].j = loop[l].j
                      /\ \A k \in 1..(loop[l].j - 1) :
                            loop[l].sigs[k] \in lastProcessedSignatures
                      /\ loop[l].sigs[loop[l].j] \notin lastProcessedSignatures
                /\ calls' # calls =>
                      /\ loop[l].pc = "fetch"
                      /\ loop'[l].pc = "dispatch"
                      /\ Len(calls') = Len(calls) + 1
                      /\ calls'[Len(calls')].sig = loop[l].sigs[loop[l].j]
       /\ Cardinality({l \in Loops : Awaiting(l)}) <= 1
       /\ Cardinality({l \in Loops : loop'[l].pc \in {"listing", "fetch", "dispatch"}}) <= 1]_vars

\* C19 witness: one pass over the listing <<2, 1>> has dispatched signature 2,
\* awaited the call, and then dispatched signature 1.
C19_Witness ==
    \E l \in Loops :
        /\ loop[l].sigs = <<2, 1>>
        /\ loop[l].j = 2
        /\ loop[l].pc = "dispatch"
        /\ Len(calls) = 2
        /\ calls[1].sig = 2
        /\ calls[2].sig = 1


\* the instructions of tx, of any configured program occurring in it, that yield
\* a trade
Decodable(tx) ==
    UNION {TradeIxs(tx, config.predictionMarketPrograms[p]) : p \in TradePrograms(tx)}

\* the step copies a source transaction: exactly one manager invocation is added,
\* for the one parsed trade, and that trade is on market m
CopiesOnceOn(m) ==
    /\ Len(calls') = Len(calls) + 1
    /\ calls'[Len(calls')].trade = unit'.trade
    /\ unit'.order = Len(calls')
    /\ unit'.trade.marketAddress = m

\* processTransaction is applied to a transaction and makes a manager call
Copies == unit' # unit /\ unit'.op = "copy" /\ unit'.trade # NoTrade

\* C20 as stated: a copied transaction adds exactly one manager invocation, for
\* one trade, and the trade is that of the first instruction, in transaction
\* order, that yields a trade.
C20_FirstDecodable ==
    [][/\ Len(calls') <= Len(calls) + 1
       /\ Copies =>
             CopiesOnceOn(MarketAddress(unit'.tx,
                                        unit'.tx.instructions[Min(Decodable(unit'.tx))]))]_vars

\* C20 amended: a copied transaction adds exactly one manager invocation, for one
\* trade; the trade is that of the first instruction, in transaction order, of
\* the first configured program, in configuration order, that occurs in the
\* transaction with an instruction yielding a trade.
C20_FirstOfFirstProgram ==
    [][/\ Len(calls') <= Len(calls) + 1
       /\ Copies =>
             LET tx == unit'.tx
                 p == Min(TradePrograms(tx))
                 n == Min(TradeIxs(tx, config.predictionMarketPrograms[p]))
             IN CopiesOnceOn(MarketAddress(tx, tx.instructions[n]))]_vars

\* C20 witness: the transaction with an instruction of P2 on M2 followed by one of
\* P1 on M was copied by a single invocation, for a trade on M.
C20_Witness ==
    /\ unit.op = "copy"
    /\ unit.tx = TxBoth
    /\ unit.order = 1
    /\ Len(calls) = 1
    /\ calls[1].trade.marketAddress = "M"


\* C21: no step removes a signature from the processed set, whatever the
\* sequence of start() and stop() calls, date rollovers and failures.
C21_Monotonic ==
    [][lastProcessedSignatures \subseteq lastProcessedSignatures']_vars

\* C21 witness: the signature marked by the first loop is still in the set after
\* stop(), a date rollover, a second start() and the daily reset made by the
\* second loop.
C21_Witness ==
    /\ lastProcessedSignatures = {1}
    /\ started = 2
    /\ isRunning
    /\ loop[1].pc = "done"
    /\ today = 1
    /\ lastResetDate = 1
    /\ loop[2].cycleDay = 1
    /\ loop[2].pc = "sleep"


\* the signatures the ledger lists for the watched addresses
ListedForWatched ==
    UNION {SeqToSet(listing[a]) : a \in SeqToSet(config.targetAddresses) \cap DOMAIN listing}

\* C22: the processed set holds only signatures listed by the ledger for a
\* watched address, and a step adds to it nothing but the listed signature the
\* stepping loop is at; no other value, such as a signature returned for a
\* replicated order, enters it.
C22_SourceSignaturesOnly ==
    /\ lastProcessedSignatures \subseteq ListedForWatched
    /\ \A l \in Loops :
          loop[l].pc \in {"fetch", "dispatch", "mark"}
          => loop[l].sigs[loop[l].j] \in ListedForWatched
    /\ \A k \in 1..Len(calls) : calls[k].sig \in ListedForWatched

\* C22 witness: signature 1 is listed for both addresses and signature 2 for A1
\* only, which this configuration (addresses A0, A2) does not watch; a cycle has
\* dispatched and marked signature 1, and signature 2 is not in the set.
C22_Witness ==
    \E l \in Loops :
        /\ config.targetAddresses = <<MalformedAddress, "A2">>
        /\ listing["A1"] = <<2, 1>>
        /\ listing["A2"] = <<1>>
        /\ lastProcessedSignatures = {1}
        /\ Len(calls) = 1
        /\ loop[l].pc = "sleep"


\* a configured program id is among the accounts of tx, and no instruction's
\* program reference resolves to a configured id
OnlyAsAccount(tx) ==
    /\ \E k \in 1..Len(tx.accountKeys) :
          tx.accountKeys[k].key \in SeqToSet(config.predictionMarketPrograms)
    /\ \A n \in 1..Len(tx.instructions) :
          IxProgramId(tx, tx.instructions[n]) \notin SeqToSet(config.predictionMarketPrograms)

\* C23: a transaction in which a configured program id occurs only as an account
\* yields no parsed trade, no manager invocation is ever made for its signature,
\* and once a pass has gone past the signature it is in the processed set.
C23_UnrelatedAccount ==
    /\ \A s \in DOMAIN txOf :
          OnlyAsAccount(txOf[s]) =>
             /\ parsePredictionMarketTransaction(txOf[s]) = NoTrade
             /\ CallsFor(calls, s) = {}
    /\ \A l \in Loops :
          (loop[l].pc = "sig" /\ loop[l].j > 1 /\ OnlyAsAccount(txOf[loop[l].sigs[loop[l].j - 1]]))
          => loop[l].sigs[loop[l].j - 1] \in lastProcessedSignatures

\* C23 witness: the one listed transaction has P1 among its accounts and an
\* instruction of another program; a pass went past it, it is marked, and no
\* manager invocation was made.
C23_Witness ==
    \E l \in Loops :
        /\ txOf = <<TxUnrelated>>
        /\ loop[l].pc = "sig"
        /\ loop[l].sigs = <<1>>
        /\ loop[l].j = 2
        /\ lastProcessedSignatures = {1}
        /\ calls = <<>>


\* the default price of a manager method: 0.99 for the buys, 0.01 for the sells
DefaultOf(method) ==
    IF method \in {"buyYesShares", "buyNoShares"} THEN DefaultCeiling ELSE DefaultFloor

\* C24 as stated: whenever a price argument is supplied, 0 included, it is the
\* order's expected price; the default is used only when none is supplied.
C24_ZeroPassedThrough ==
    \A k \in MonacoCalls :
        OrderOf(k).expectedPrice =
            IF calls[k].call.price = NoPrice
            THEN DefaultOf(calls[k].call.method)
            ELSE calls[k].call.price

\* the monitor loops that were launched and have not yet returned
ActiveLoops == {l \in Loops : loop[l].pc \notin {"idle", "done"}}

\* C25 as stated: at most one monitor loop is active at any time, whatever the
\* sequence of start() and stop() calls.
C25_SingleLoop == Cardinality(ActiveLoops) <= 1

\* C26 as stated: over the process lifetime no source signature is dispatched
\* to the adapter more than once, under every interleaving of start(), stop()
\* and the awaited steps of the loop.
C26_AtMostOncePerSignature ==
    \A s \in 1..MaxSigs : Cardinality(CallsFor(calls, s)) <= 1


\* C27: the processed set is one set for all watched addresses.  No signature is
\* dispatched twice, and a transaction request settles (with a body or with
\* null) only for a signature that is not in the set and has no dispatch yet,
\* after which the signature is in the set, or its one dispatch is awaited, or
\* the loop is about to add it: a signature listed for two watched addresses is
\* fetched and dispatched once.
C27_SharedSet ==
    /\ [](\A s \in 1..MaxSigs : Cardinality(CallsFor(calls, s)) <= 1)
    /\ [][\A l \in Loops :
             (/\ loop[l].pc = "fetch"
              /\ Steps(l)
              /\ loop'[l].pc \in {"sig", "dispatch", "mark"})
             => /\ CurrentSig(l) \notin lastProcessedSignatures
                /\ CallsFor(calls, CurrentSig(l)) = {}
                /\ \/ CurrentSig(l) \in lastProcessedSignatures'
                   \/ /\ loop'[l].pc = "dispatch"
                      /\ Cardinality(CallsFor(calls', CurrentSig(l))) = 1
                   \/ /\ loop'[l].pc = "mark"
                      /\ calls' = calls]_vars

\* C27 witness: signature 1 is listed for A1 and for A2; it was fetched and
\* dispatched at A1, and the pass over A2's listing has skipped it.
C27_Witness ==
    \E l \in Loops :
        /\ config.targetAddresses = <<"A1", "A2">>
        /\ listing["A1"] = <<1>>
        /\ listing["A2"] = <<1>>
        /\ loop[l].i = 2
        /\ loop[l].pc = "sig"
        /\ loop[l].sigs = <<1>>
        /\ loop[l].j = 2
        /\ lastProcessedSignatures = {1}
        /\ Len(calls) = 1
        /\ calls[1].sig = 1


\* C28: a signature whose transaction request settles with null is in the
\* processed set after that same step and no call was made; no request or
\* dispatch is ever in flight for a signature of the set, and a signature of the
\* set stays in it and gets no further call, whatever the ledger holds for it
\* later.
C28_AbsentBodyMarked ==
    /\ [](\A l \in Loops :
            loop[l].pc \in {"fetch", "dispatch", "mark"}
            => CurrentSig(l) \notin lastProcessedSignatures)
    /\ [][/\ \A l \in Loops :
               (/\ loop[l].pc = "fetch"
                /\ Steps(l)
                /\ loop'[l].pc = "sig")
               => /\ CurrentSig(l) \in lastProcessedSignatures'
                  /\ calls' = calls
                  /\ loop'[l].j = loop[l].j + 1
          /\ \A s \in lastProcessedSignatures :
               /\ s \in lastProcessedSignatures'
               /\ CallsFor(calls', s) = CallsFor(calls, s)]_vars

\* C28 witness: the body of signature 1 is a back order that the default
\* configuration replicates, the request for it returned null, and the
\* signature is in the processed set with no call made; the loop has
\* finished that cycle.
C28_Witness ==
    \E l \in Loops :
        /\ config = DefaultConfig
        /\ txOf = <<TxBack>>
        /\ TradeToDispatch(TxBack) # NoTrade
        /\ lastProcessedSignatures = {1}
        /\ calls = <<>>
        /\ loop[l].pc = "sleep"


\* loop l has the request or the dispatch of signature s in flight
InFlight(l, s) == loop[l].pc \in {"fetch", "dispatch", "mark"} /\ CurrentSig(l) = s

\* signature s is listed for the address at position k of the configuration
ListedAt(k, s) ==
    /\ config.targetAddresses[k] \in DOMAIN listing
    /\ \E n \in DOMAIN listing[config.targetAddresses[k]] :
          listing[config.targetAddresses[k]][n] = s

\* C29 as stated: a signature left behind by a failed transaction request stays
\* unmarked and unprocessed for the rest of the cycle.
C29_AbandonedForCycle ==
    \A l \in Loops : \A s \in loop[l].abandoned :
        /\ s \notin lastProcessedSignatures
        /\ CallsFor(calls, s) = {}
        /\ ~InFlight(l, s)

\* C29 amended: a failed transaction request marks nothing and calls nothing,
\* ends the pass over that listing (the signature and those after it are left
\* behind) and moves the loop to the next address; a signature enters the
\* processed set only from a request or dispatch of it; a pass that comes to an
\* unseen signature requests it; and a signature left behind is requested,
\* dispatched or marked in the rest of the same cycle only at a later address
\* whose listing contains it too.
C29_PassAbandoned ==
    /\ [](\A l \in Loops : \A s \in loop[l].abandoned :
            (s \in lastProcessedSignatures \/ CallsFor(calls, s) # {} \/ InFlight(l, s))
            => \E k \in 2..Len(config.targetAddresses) :
                  k <= loop[l].i /\ ListedAt(k, s))
    /\ [][/\ \A l \in Loops :
               (/\ loop[l].pc = "fetch"
                /\ Steps(l)
                /\ lastProcessedSignatures' = lastProcessedSignatures
                /\ calls' = calls
                /\ loop'[l].pc # "mark")
               => /\ loop'[l].pc = "addr"
                  /\ loop'[l].i = loop[l].i + 1
                  /\ loop'[l].sigs = <<>>
                  /\ LeftBehind(loop[l]) \subseteq loop'[l].abandoned
                  /\ CurrentSig(l) \in LeftBehind(loop[l])
          /\ \A s \in 1..MaxSigs :
               (s \notin lastProcessedSignatures /\ s \in lastProcessedSignatures')
               => \E l \in Loops : InFlight(l, s) /\ Steps(l)
          /\ \A l \in Loops :
               (/\ loop[l].pc = "sig"
                /\ loop[l].j <= Len(loop[l].sigs)
                /\ CurrentSig(l) \notin lastProcessedSignatures
                /\ Steps(l))
               => /\ loop'[l].pc = "fetch"
                  /\ loop'[l].j = loop[l].j
                  /\ loop'[l].sigs = loop[l].sigs]_vars

\* C29 witness: the request for signature 1 failed in the pass over A1, the loop
\* went on to A2, whose listing holds signature 1 as well, and there, in the
\* same cycle, signature 1 was dispatched and marked.
C29_Witness ==
    \E l \in Loops :
        /\ loop[l].abandoned = {1}
        /\ loop[l].i = 2
        /\ loop[l].pc = "sig"
        /\ loop[l].sigs = <<1>>
        /\ loop[l].j = 2
        /\ listing["A1"] = <<1>>
        /\ listing["A2"] = <<1>>
        /\ lastProcessedSignatures = {1}
        /\ Len(calls) = 1
        /\ calls[1].sig = 1


\* C30 as stated: the trade decoded from an instruction of program P is
\* dispatched through the position manager created for P.
C30_ManagerOfDecodedProgram ==
    (unit.op = "copy" /\ unit.trade # NoTrade)
    => calls[unit.order].call.manager =
          IxProgramId(unit.tx, unit.tx.instructions[DecodedIx(unit.tx)])

====
